---------------------------- MODULE Spec2Model ----------------------------
(***************************************************************************)
(* Quality control of spike-sorted units (seal/quality/test_sorting.py,    *)
(* seal/object/unit.py): time binning, drift detection, trial inclusion,   *)
(* ISI statistics, SNR, the five-criterion rejection test and the test_qm  *)
(* pass that writes the results back to the unit.                          *)
(*                                                                         *)
(* Time is counted in ticks of 25 microseconds, the largest unit in which  *)
(* CENSORED_PRD_LEN (0.675 ms = 27 ticks), ISI_TH (1 ms = 40 ticks) and    *)
(* MIN_BIN_LEN (120 s) are all whole numbers.  Arithmetic is exact         *)
(* (rationals); floating-point rounding is not modelled.                   *)
(***************************************************************************)
EXTENDS Integers, Sequences, FiniteSets, TLC

VARIABLES
    units,      \* Unit objects: [Units -> unit record]
    ret,        \* value returned by the last test_qm call on each unit
    call,       \* arguments of the last test_qm call on each unit
    din,        \* input data of test_drift and set_inc_trials; in SpecPar
                \* the units as they were built
    dres,       \* result of test_drift on din
    mres,       \* result of set_inc_trials on din
    isiIn,      \* spike times handed to isi_stats
    isiOut,     \* result of isi_stats on isiIn
    fnIn,       \* arguments handed to calc_snr or classify_unit
    fnOut,      \* the value it returned
    pc,         \* the block of test_qm each unit's pass is to run next
    frame,      \* the locals of each unit's pass
    hist        \* the arguments of the passes started on each unit so far,
                \* oldest first

vars == <<units, ret, call, din, dres, mres, isiIn, isiOut, fnIn, fnOut, pc, frame,
          hist>>

(***************************************************************************)
(* Program constants                                                       *)
(***************************************************************************)
TicksPerMs == 4 * 10
TicksPerS == 1000 * TicksPerMs

CENSORED_PRD_LEN == 27          \* 0.675 ms
ISI_TH == 40                    \* 1.0 ms
MAX_DRIFT_PCT == 200
MIN_BIN_LEN == 4800000          \* 120 s

min_SNR == 1
min_FR == 1
max_ISIvr == 1
min_n_trs == 20
min_inc_trs_ratio == 50

VMIN == 0 - 2048
VMAX == 2047

\* Python's None: as the include argument, as a trial bound, as a label
None == "None"
NoBound == 0 - 1

(***************************************************************************)
(* Bounds of the model                                                     *)
(***************************************************************************)
MaxSpikes == 3
MaxTrials == 21
\* bins of a long session, and spikes in one bin of it
DriftBins == 3
MaxBinSpikes == 3
\* test_qm passes on one unit
MaxPasses == 2

(***************************************************************************)
(* Numbers.  A value is NaN, +inf, a rational n/d (d > 0), the root of a   *)
(* rational, or the Hill estimate 100*(1/2 + sqrt(n/d)).                   *)
(***************************************************************************)
RECURSIVE GCD(_, _)
GCD(a, b) == IF b = 0 THEN a ELSE GCD(b, a % b)

Abs(x) == IF x < 0 THEN -x ELSE x

NaN == [k |-> "nan", n |-> 0, d |-> 1]
PInf == [k |-> "inf", n |-> 0, d |-> 1]

\* n/d in lowest terms, d > 0
Q(n, d) ==
    LET g == GCD(Abs(n), d)
    IN  [k |-> "num", n |-> n \div g, d |-> d \div g]

\* numpy float division n/d of non-negative numbers: x/0 is inf, 0/0 is nan
FDiv(n, d) == IF d = 0 THEN (IF n = 0 THEN NaN ELSE PInf) ELSE Q(n, d)

IsNaN(v) == v.k = "nan"

\* v > c and v < c and v >= c for an integer c >= 0; every comparison
\* with NaN is false
GtC(v, c) ==
    CASE v.k = "nan" -> FALSE
      [] v.k = "inf" -> TRUE
      [] v.k = "num" -> v.n > c * v.d
      [] v.k = "root" -> v.n > c * c * v.d
      [] v.k = "hill" -> (c < 50) \/ (10000 * v.n > (c - 50) * (c - 50) * v.d)

LtC(v, c) ==
    CASE v.k = "nan" -> FALSE
      [] v.k = "inf" -> FALSE
      [] v.k = "num" -> v.n < c * v.d
      [] v.k = "root" -> v.n < c * c * v.d
      [] v.k = "hill" -> (c > 50) /\ (10000 * v.n < (c - 50) * (c - 50) * v.d)

GeC(v, c) ==
    CASE v.k = "nan" -> FALSE
      [] v.k = "inf" -> TRUE
      [] v.k = "num" -> v.n >= c * v.d
      [] v.k = "root" -> v.n >= c * c * v.d
      [] v.k = "hill" -> (c <= 50) \/ (10000 * v.n >= (c - 50) * (c - 50) * v.d)

\* a time t (a rational, in ticks) against an integer tick count x
TimeLe(t, x) == t.n <= x * t.d
TimeLt(t, x) == t.n < x * t.d
TimeGe(t, x) == t.n >= x * t.d
TimeGt(t, x) == t.n > x * t.d

\* rational against rational
QLe(a, b) == a.n * b.d <= b.n * a.d

Min2(a, b) == IF a <= b THEN a ELSE b
Max2(a, b) == IF a >= b THEN a ELSE b

RECURSIVE SeqMin(_)
SeqMin(q) == IF Len(q) = 1 THEN q[1] ELSE Min2(q[1], SeqMin(Tail(q)))

RECURSIVE SeqMax(_)
SeqMax(q) == IF Len(q) = 1 THEN q[1] ELSE Max2(q[1], SeqMax(Tail(q)))

\* number of TRUE entries of a boolean mask (np.sum)
RECURSIVE NTrue(_)
NTrue(m) == IF m = <<>> THEN 0 ELSE (IF m[1] THEN 1 ELSE 0) + NTrue(Tail(m))

\* q[mask]: the entries of q selected by a boolean mask
RECURSIVE Select(_, _)
Select(q, m) ==
    IF q = <<>> THEN <<>>
    ELSE (IF m[1] THEN <<q[1]>> ELSE <<>>) \o Select(Tail(q), Tail(m))

(***************************************************************************)
(* util.indices_in_window(v, vmin, vmax): mask of the entries of v inside  *)
(* the window.  seal/util/util.py is not among the sources; the window is  *)
(* the half-open interval [vmin, vmax) the specification states.           *)
(***************************************************************************)
indices_in_window(v, vmin, vmax) ==
    [i \in 1..Len(v) |-> TimeLe(vmin, v[i]) /\ TimeGt(vmax, v[i])]

(***************************************************************************)
(* get_start_stop_times                                                    *)
(***************************************************************************)
\* min() and max() of no trial are NaN, and Python's min and max keep their
\* first argument against a NaN
get_start_stop_times(spk_times, tr_starts, tr_stops) ==
    LET tfirst_spk == SeqMin(spk_times)
        tlast_spk == SeqMax(spk_times)
    IN  IF Len(tr_starts) = 0
        THEN [t_start |-> tfirst_spk, t_stop |-> tlast_spk]
        ELSE [t_start |-> Min2(tfirst_spk, SeqMin(tr_starts)),
              t_stop |-> Max2(tlast_spk, SeqMax(tr_stops))]

(***************************************************************************)
(* time_bin_data: nbins equal bins between t_start and t_stop, and the     *)
(* spikes of each bin.  Bin edges are the rationals of the linspace.       *)
(***************************************************************************)
\* variant: a started bin counts
NBins_round_up(t_start, t_stop) ==
    Max2((t_stop - t_start + MIN_BIN_LEN - 1) \div MIN_BIN_LEN, 1)

NBins(t_start, t_stop) == Max2((t_stop - t_start) \div MIN_BIN_LEN, 1)

quantity_linspace(t_start, t_stop, num) ==
    [i \in 1..num |->
        Q(t_start * (num - 1) + (i - 1) * (t_stop - t_start), num - 1)]

time_bin_data(spk_times, tr_starts, tr_stops) ==
    LET ss == get_start_stop_times(spk_times, tr_starts, tr_stops)
        nbins == NBins(ss.t_start, ss.t_stop)
        tbin_lims == quantity_linspace(ss.t_start, ss.t_stop, nbins + 1)
        tbins == [i \in 1..nbins |-> <<tbin_lims[i], tbin_lims[i + 1]>>]
        spk_idx_binned ==
            [i \in 1..nbins |->
                indices_in_window(spk_times, tbins[i][1], tbins[i][2])]
    IN  [tbins |-> tbins, spk_idx_binned |-> spk_idx_binned]

\* rate_t of test_qm: spikes of the bin over the bin length in seconds
\* (count / 0 is inf, 0 / 0 is nan)
BinRate(cnt, t1, t2) ==
    \* t1, t2 share the denominator of the linspace unless reduced; the
    \* length is (t2 - t1) ticks = (t2.n*t1.d - t1.n*t2.d) / (t1.d*t2.d)
    FDiv(cnt * TicksPerS * t1.d * t2.d, t2.n * t1.d - t1.n * t2.d)

rate_t(spk_times, tb) ==
    [i \in 1..Len(tb.tbins) |->
        BinRate(NTrue(tb.spk_idx_binned[i]), tb.tbins[i][1], tb.tbins[i][2])]


(***************************************************************************)
(* Comparisons of rates as Python and numpy make them                      *)
(***************************************************************************)
\* a > (pct/100) * b
VGtPct(a, pct, b) ==
    CASE a.k = "nan" \/ b.k = "nan" -> FALSE
      [] a.k = "inf" -> b.k # "inf"
      [] b.k = "inf" -> FALSE
      [] OTHER ->
            LET gd == GCD(a.d, b.d)
                gn == GCD(a.n, b.n)
                an == IF gn = 0 THEN a.n ELSE a.n \div gn
                bn == IF gn = 0 THEN b.n ELSE b.n \div gn
            IN  100 * an * (b.d \div gd) > pct * bn * (a.d \div gd)

VGt(a, b) == VGtPct(a, 100, b)

\* min(a, b) and max(a, b) of Python: the first argument unless the second
\* one compares strictly below (above) it
PyMin(a, b) == IF VGt(a, b) THEN b ELSE a
PyMax(a, b) == IF VGt(b, a) THEN b ELSE a

(***************************************************************************)
(* test_drift                                                              *)
(***************************************************************************)
\* variant: a trial that starts at time t counts as started before it
NTrialsBefore_le(tr_starts, t) ==
    Cardinality({i \in 1..Len(tr_starts) : TimeGe(t, tr_starts[i])})

\* np.sum(tr_starts_arr < t): number of trials started before time t
NTrialsBefore(tr_starts, t) ==
    Cardinality({i \in 1..Len(tr_starts) : TimeGt(t, tr_starts[i])})

\* variant: only a drop below the running maximum terminates a period
DriftBreak_drop_only(vmin, vmax, v2) ==
    VGtPct(vmax, MAX_DRIFT_PCT, v2)

\* the test that terminates a period
DriftBreak(vmin, vmax, v2) ==
    VGtPct(vmax, MAX_DRIFT_PCT, v2) \/ VGtPct(v2, MAX_DRIFT_PCT, vmin)

\* variant: a period is never longer than two bins
DriftRun_two_bins(v, i, j, vmin, vmax) ==
    IF i < Len(v) /\ ~VGtPct(v[i], MAX_DRIFT_PCT, v[i + 1])
                  /\ ~VGtPct(v[i + 1], MAX_DRIFT_PCT, v[i])
    THEN 1 ELSE 0

\* inner loop of test_drift from start bin i (1-based): the final value of j
RECURSIVE DriftRun(_, _, _, _, _)
DriftRun(v, i, j, vmin, vmax) ==
    LET v2 == v[i + j]
        nmin == PyMin(vmin, v2)
        nmax == PyMax(vmax, v2)
    IN  IF DriftBreak(nmin, nmax, v2) THEN j - 1
        ELSE IF i + j = Len(v) THEN j
        ELSE DriftRun(v, i, j + 1, nmin, nmax)

\* variant: tr_start_i counts the trials before the end of the period and
\* tr_end_i those before its start
PrdRes_tr_swapped(v, tbins, tr_starts) ==
    [i \in 1..Len(v) |->
        LET j == DriftRun(v, i, 0, v[i], v[i])
            end_i == i + j
        IN  [prd_start_i |-> i - 1,
             prd_end_i |-> end_i - 1,
             n_prd |-> j + 1,
             t_start |-> tbins[i][1],
             t_end |-> tbins[end_i][2],
             tr_start_i |-> NTrialsBefore(tr_starts, tbins[end_i][2]),
             tr_end_i |-> NTrialsBefore(tr_starts, tbins[i][1]),
             n_tr |-> NTrialsBefore(tr_starts, tbins[i][1])
                        - NTrialsBefore(tr_starts, tbins[end_i][2])]]

\* the table prd_res, one row per start bin; bin and trial indices are the
\* 0-based ones of the source
PrdRes(v, tbins, tr_starts) ==
    [i \in 1..Len(v) |->
        LET j == DriftRun(v, i, 0, v[i], v[i])
            end_i == i + j
        IN  [prd_start_i |-> i - 1,
             prd_end_i |-> end_i - 1,
             n_prd |-> j + 1,
             t_start |-> tbins[i][1],
             t_end |-> tbins[end_i][2],
             tr_start_i |-> NTrialsBefore(tr_starts, tbins[i][1]),
             tr_end_i |-> NTrialsBefore(tr_starts, tbins[end_i][2]),
             n_tr |-> NTrialsBefore(tr_starts, tbins[end_i][2])
                        - NTrialsBefore(tr_starts, tbins[i][1])]]

\* variant: the first row holding the most bins
ArgMaxNTr_most_bins(prd_res) ==
    CHOOSE i \in 1..Len(prd_res) :
        /\ \A k \in 1..Len(prd_res) : prd_res[k].n_prd <= prd_res[i].n_prd
        /\ \A k \in 1..(i - 1) : prd_res[k].n_prd < prd_res[i].n_prd

\* variant: the last row holding the maximum
ArgMaxNTr_last(prd_res) ==
    CHOOSE i \in 1..Len(prd_res) :
        /\ \A k \in 1..Len(prd_res) : prd_res[k].n_tr <= prd_res[i].n_tr
        /\ \A k \in (i + 1)..Len(prd_res) : prd_res[k].n_tr < prd_res[i].n_tr

\* prd_res.n_tr.argmax(): the first row holding the maximum
ArgMaxNTr(prd_res) ==
    CHOOSE i \in 1..Len(prd_res) :
        /\ \A k \in 1..Len(prd_res) : prd_res[k].n_tr <= prd_res[i].n_tr
        /\ \A k \in 1..(i - 1) : prd_res[k].n_tr < prd_res[i].n_tr

\* variant: the trial at last_tr is included
TrInc_last_inclusive(n, first_tr, last_tr) ==
    [i \in 1..n |-> (i - 1 >= first_tr) /\ (i - 1 <= last_tr)]

\* tr_inc of both paths: (index >= first_tr) & (index < last_tr)
TrInc(n, first_tr, last_tr) ==
    [i \in 1..n |-> (i - 1 >= first_tr) /\ (i - 1 < last_tr)]

Arange(n) == [i \in 1..n |-> i - 1]

test_drift(v, tbins, tr_starts, spk_times) ==
    LET prd_res == PrdRes(v, tbins, tr_starts)
        idx == ArgMaxNTr(prd_res)
        prd1 == prd_res[idx].prd_start_i
        prd2 == prd_res[idx].prd_end_i
        t1_inc == prd_res[idx].t_start
        t2_inc == prd_res[idx].t_end
        first_tr == prd_res[idx].tr_start_i
        last_tr == prd_res[idx].tr_end_i
    IN  [t1_inc |-> t1_inc,
         t2_inc |-> t2_inc,
         prd_inc |-> indices_in_window(Arange(Len(tbins)),
                                       Q(prd1, 1), Q(prd2, 1)),
         tr_inc |-> TrInc(Len(tr_starts), first_tr, last_tr),
         spk_inc |-> indices_in_window(spk_times, t1_inc, t2_inc),
         prd1 |-> prd1, prd2 |-> prd2,
         first_tr |-> first_tr, last_tr |-> last_tr,
         prd_res |-> prd_res, idx |-> idx - 1]

(***************************************************************************)
(* set_inc_trials, for 0 <= first_tr < len(tr_starts) and                  *)
(* first_tr <= last_tr <= len(tr_starts)                                   *)
(***************************************************************************)
TbinVmid(tbins) ==
    [i \in 1..Len(tbins) |->
        Q(tbins[i][1].n * tbins[i][2].d + tbins[i][2].n * tbins[i][1].d,
          2 * tbins[i][1].d * tbins[i][2].d)]

\* variant: t1_inc is the start of trial first_tr also for first_tr = 0
set_inc_trials_t1_trial(first_tr, last_tr, tr_starts, tr_stops, spk_times, tbin_vmid) ==
    LET tr_inc == TrInc(Len(tr_starts), first_tr, last_tr)
        ss == get_start_stop_times(spk_times, tr_starts, tr_stops)
        t1_inc == Q(tr_starts[first_tr + 1], 1)
        t2_inc == IF last_tr = Len(tr_starts) THEN Q(ss.t_stop, 1)
                  ELSE Q(tr_starts[last_tr + 1], 1)
    IN  [t1_inc |-> t1_inc,
         t2_inc |-> t2_inc,
         prd_inc |-> [i \in 1..Len(tbin_vmid) |->
                        QLe(t1_inc, tbin_vmid[i]) /\ QLe(tbin_vmid[i], t2_inc)],
         tr_inc |-> tr_inc,
         spk_inc |-> indices_in_window(spk_times, t1_inc, t2_inc),
         prd1 |-> NoBound, prd2 |-> NoBound,
         first_tr |-> first_tr, last_tr |-> last_tr]

\* variant: for last_tr = number of trials t2_inc is the end of the last
\* trial, not the end of the session
set_inc_trials_t2_trials(first_tr, last_tr, tr_starts, tr_stops, spk_times, tbin_vmid) ==
    LET tr_inc == TrInc(Len(tr_starts), first_tr, last_tr)
        ss == get_start_stop_times(spk_times, tr_starts, tr_stops)
        t1_inc == IF first_tr = 0 THEN Q(ss.t_start, 1)
                  ELSE Q(tr_starts[first_tr + 1], 1)
        t2_inc == IF last_tr = Len(tr_starts) THEN Q(SeqMax(tr_stops), 1)
                  ELSE Q(tr_starts[last_tr + 1], 1)
    IN  [t1_inc |-> t1_inc,
         t2_inc |-> t2_inc,
         prd_inc |-> [i \in 1..Len(tbin_vmid) |->
                        QLe(t1_inc, tbin_vmid[i]) /\ QLe(tbin_vmid[i], t2_inc)],
         tr_inc |-> tr_inc,
         spk_inc |-> indices_in_window(spk_times, t1_inc, t2_inc),
         prd1 |-> NoBound, prd2 |-> NoBound,
         first_tr |-> first_tr, last_tr |-> last_tr]

set_inc_trials(first_tr, last_tr, tr_starts, tr_stops, spk_times, tbin_vmid) ==
    LET tr_inc == TrInc(Len(tr_starts), first_tr, last_tr)
        ss == get_start_stop_times(spk_times, tr_starts, tr_stops)
        t1_inc == IF first_tr = 0 THEN Q(ss.t_start, 1)
                  ELSE Q(tr_starts[first_tr + 1], 1)
        t2_inc == IF last_tr = Len(tr_starts) THEN Q(ss.t_stop, 1)
                  ELSE Q(tr_starts[last_tr + 1], 1)
    IN  [t1_inc |-> t1_inc,
         t2_inc |-> t2_inc,
         prd_inc |-> [i \in 1..Len(tbin_vmid) |->
                        QLe(t1_inc, tbin_vmid[i]) /\ QLe(tbin_vmid[i], t2_inc)],
         tr_inc |-> tr_inc,
         spk_inc |-> indices_in_window(spk_times, t1_inc, t2_inc),
         prd1 |-> NoBound, prd2 |-> NoBound,
         first_tr |-> first_tr, last_tr |-> last_tr]

(***************************************************************************)
(* isi_stats: (true_spikes, percent_ISI_vr) of a sorted spike train        *)
(***************************************************************************)
\* elephant.statistics.isi: the differences of consecutive spike times
Isi(spk_times) == [i \in 1..(Len(spk_times) - 1) |-> spk_times[i + 1] - spk_times[i]]

\* variant: an interval of exactly ISI_TH counts as a violation
NIsiVr_le(isi) == Cardinality({i \in 1..Len(isi) : isi[i] <= ISI_TH})

\* sum(isi < ISI_TH)
NIsiVr(isi) == Cardinality({i \in 1..Len(isi) : isi[i] < ISI_TH})

\* variant: the root of the absolute value of det is taken
Hill_abs(n, d) == [Q(Abs(n), d) EXCEPT !.k = "hill"]

\* 100*(1/2 + sqrt(det)) for det = n/d >= 0, NaN for det < 0
Hill(n, d) ==
    IF n >= 0 THEN [Q(n, d) EXCEPT !.k = "hill"] ELSE NaN

\* variant: the differences are taken with the first spike time prepended
\* (one interval per spike)
isi_stats_prepend(spk_times) ==
    IF Len(spk_times) = 0 THEN [true_spikes |-> NaN, ISIvr |-> NaN, n_ISI_vr |-> 0, n_isi |-> 0]
    ELSE IF Len(spk_times) = 1
    THEN [true_spikes |-> Q(100, 1), ISIvr |-> Q(0, 1), n_ISI_vr |-> 0, n_isi |-> 0]
    ELSE
        LET isi == [i \in 1..Len(spk_times) |->
                        IF i = 1 THEN 0 ELSE spk_times[i] - spk_times[i - 1]]
            n_ISI_vr == NIsiVr(isi)
            N == Len(spk_times)
            T == SeqMax(spk_times) - SeqMin(spk_times)
            r == n_ISI_vr
            tdif == ISI_TH - CENSORED_PRD_LEN
            det_n == tdif * N * N - 2 * r * T
            det_d == 4 * tdif * N * N
        IN  [true_spikes |-> Hill(det_n, det_d),
             ISIvr |-> Q(100 * n_ISI_vr, Len(isi) - 1),
             n_ISI_vr |-> n_ISI_vr,
             n_isi |-> Len(isi) - 1]

\* variant: a train of one spike takes the general path, 100 * 0 / 0
isi_stats_no_single(spk_times) ==
    IF Len(spk_times) = 0 THEN [true_spikes |-> NaN, ISIvr |-> NaN, n_ISI_vr |-> 0, n_isi |-> 0]
    ELSE
        LET isi == Isi(spk_times)
            n_ISI_vr == NIsiVr(isi)
            N == Len(spk_times)
            T == SeqMax(spk_times) - SeqMin(spk_times)
            r == n_ISI_vr
            tdif == ISI_TH - CENSORED_PRD_LEN
            det_n == tdif * N * N - 2 * r * T
            det_d == 4 * tdif * N * N
        IN  [true_spikes |-> Hill(det_n, det_d),
             ISIvr |-> FDiv(100 * n_ISI_vr, Len(isi)),
             n_ISI_vr |-> n_ISI_vr,
             n_isi |-> Len(isi)]

isi_stats(spk_times) ==
    IF Len(spk_times) = 0 THEN [true_spikes |-> NaN, ISIvr |-> NaN, n_ISI_vr |-> 0, n_isi |-> 0]
    ELSE IF Len(spk_times) = 1
    THEN [true_spikes |-> Q(100, 1), ISIvr |-> Q(0, 1), n_ISI_vr |-> 0, n_isi |-> 0]
    ELSE
        LET isi == Isi(spk_times)
            n_ISI_vr == NIsiVr(isi)
            N == Len(spk_times)
            T == SeqMax(spk_times) - SeqMin(spk_times)
            r == n_ISI_vr
            tdif == ISI_TH - CENSORED_PRD_LEN
            \* det = 1/4 - r*T / (2*tdif*N^2)
            det_n == tdif * N * N - 2 * r * T
            det_d == 4 * tdif * N * N
        IN  [true_spikes |-> Hill(det_n, det_d),
             ISIvr |-> Q(100 * n_ISI_vr, Len(isi)),
             n_ISI_vr |-> n_ISI_vr,
             n_isi |-> Len(isi)]

(***************************************************************************)
(* calc_snr: std (ddof 1) of the mean waveform over std (ddof 0) of the    *)
(* residuals, held as the root of the ratio of the two variances           *)
(***************************************************************************)
RECURSIVE SumSeq(_)
SumSeq(q) == IF q = <<>> THEN 0 ELSE q[1] + SumSeq(Tail(q))

calc_snr(waveforms) ==
    IF Len(waveforms) < 2 THEN NaN
    ELSE
        LET n == Len(waveforms)
            K == Len(waveforms[1])
            S == [j \in 1..K |-> SumSeq([i \in 1..n |-> waveforms[i][j]])]
            T == SumSeq(S)
            \* var(wf_mean) = sum_j (K*S[j] - T)^2 / (n^2 K^2 (K-1))
            var_mean == SumSeq([j \in 1..K |-> (K * S[j] - T) * (K * S[j] - T)])
            \* var(wf_res) = sum_ij (n*w[i][j] - S[j])^2 / (n^3 K)
            var_res == SumSeq([i \in 1..n |->
                          SumSeq([j \in 1..K |->
                              (n * waveforms[i][j] - S[j]) * (n * waveforms[i][j] - S[j])])])
            ratio == FDiv(n * var_mean, K * (K - 1) * var_res)
        IN  IF K < 2 THEN NaN
            ELSE IF ratio.k = "num" THEN [ratio EXCEPT !.k = "root"] ELSE ratio

(***************************************************************************)
(* classify_unit                                                           *)
(***************************************************************************)
\* variant: both thresholds are exclusive
classify_unit_strict(snr, true_spikes) ==
    IF GtC(true_spikes, 90) /\ GtC(snr, 2) THEN "single unit" ELSE "multi unit"

classify_unit(snr, true_spikes) ==
    IF GeC(true_spikes, 90) /\ GeC(snr, 2) THEN "single unit" ELSE "multi unit"

(***************************************************************************)
(* calc_waveform_stats: the truncation flag, the extreme voltages and the  *)
(* nvalid column (duration and amplitude come from a spline fit and are    *)
(* not modelled)                                                           *)
(***************************************************************************)
Flatten(wfs) ==
    [k \in 1..(Len(wfs) * Len(wfs[1])) |->
        wfs[((k - 1) \div Len(wfs[1])) + 1][((k - 1) % Len(wfs[1])) + 1]]

CountEq(q, x) == Cardinality({i \in 1..Len(q) : q[i] = x})

calc_waveform_stats(waveforms) ==
    LET flat == Flatten(waveforms)
        minV == SeqMin(flat)
        maxV == SeqMax(flat)
    IN  [is_truncated |-> (CountEq(flat, minV) > 1) \/ (CountEq(flat, maxV) > 1),
         minV |-> minV,
         maxV |-> maxV,
         nvalid |-> [i \in 1..Len(waveforms) |-> Len(waveforms[i])]]

(***************************************************************************)
(* test_rejection: the unit is included iff all five criteria are met      *)
(***************************************************************************)
\* variant: the SNR criterion is met at the threshold
TestPassed_snr_ge(qm) ==
    [SNR |-> GeC(qm.SNR, min_SNR),
     FR |-> GtC(qm.mFR, min_FR),
     ISI |-> LtC(qm.ISIvr, max_ISIvr),
     NTotalTrs |-> qm.NTrialsTotal > min_n_trs,
     IncTrsRatio |-> GtC(FDiv(100 * qm.NTrialsInc, qm.NTrialsTotal),
                         min_inc_trs_ratio)]

\* variant: the SNR criterion written as not (SNR <= min_SNR), which an
\* undefined SNR meets
TestPassed_snr_not_le(qm) ==
    [SNR |-> IsNaN(qm.SNR) \/ GtC(qm.SNR, min_SNR),
     FR |-> GtC(qm.mFR, min_FR),
     ISI |-> LtC(qm.ISIvr, max_ISIvr),
     NTotalTrs |-> qm.NTrialsTotal > min_n_trs,
     IncTrsRatio |-> GtC(FDiv(100 * qm.NTrialsInc, qm.NTrialsTotal),
                         min_inc_trs_ratio)]

TestPassed(qm) ==
    [SNR |-> GtC(qm.SNR, min_SNR),
     FR |-> GtC(qm.mFR, min_FR),
     ISI |-> LtC(qm.ISIvr, max_ISIvr),
     NTotalTrs |-> qm.NTrialsTotal > min_n_trs,
     IncTrsRatio |-> GtC(FDiv(100 * qm.NTrialsInc, qm.NTrialsTotal),
                         min_inc_trs_ratio)]

\* variant: the value is whether the unit is to be rejected
test_rejection_rejected(qm) ==
    LET test_passed == TestPassed(qm)
    IN  \E c \in DOMAIN test_passed : ~test_passed[c]

\* lines 394-425; the value is test_passed.all()
test_rejection(qm) ==
    LET test_passed == TestPassed(qm)
    IN  \A c \in DOMAIN test_passed : test_passed[c]

(***************************************************************************)
(* Unit objects                                                            *)
(***************************************************************************)
Unset == [k |-> "unset", n |-> 0, d |-> 1]

\* the empty pd.Series QualityMetrics of a new unit: keys holds the index
EmptyQM ==
    [keys |-> {}, SNR |-> Unset, mFR |-> Unset, ISIvr |-> Unset,
     TrueSpikes |-> Unset, UnitType |-> None,
     NTrialsTotal |-> 0, NTrialsInc |-> 0, NTrialsExc |-> 0]

\* Unit() without a TPLCell: empty and excluded, no data.  up_keys holds the
\* index of the pd.Series UnitParams.
EmptyUnit ==
    [empty |-> TRUE, excluded |-> TRUE,
     up_keys |-> {"empty", "excluded"}, truncated |-> FALSE, minV |-> 0, maxV |-> 0,
     Waveforms |-> <<>>, time |-> <<>>, spk_included |-> <<>>, nvalid |-> <<>>,
     TrialStart |-> <<>>, TrialStop |-> <<>>, tr_included |-> <<>>,
     QualityMetrics |-> EmptyQM]

\* Unit(TPLCell, ...): all trials and all spikes included, not excluded
NewUnit(waveforms, spk_times, tr_starts, tr_stops) ==
    [empty |-> FALSE, excluded |-> FALSE,
     up_keys |-> {"empty", "excluded"}, truncated |-> FALSE, minV |-> 0, maxV |-> 0,
     Waveforms |-> waveforms, time |-> spk_times,
     spk_included |-> [i \in 1..Len(spk_times) |-> TRUE],
     nvalid |-> <<>>,
     TrialStart |-> tr_starts, TrialStop |-> tr_stops,
     tr_included |-> [i \in 1..Len(tr_starts) |-> TRUE],
     QualityMetrics |-> EmptyQM]

\* Unit.set_excluded
set_excluded(u, to_excl) == [u EXCEPT !.excluded = to_excl]

\* variant: a trial stays excluded once a pass has excluded it
update_included_trials_patch(u, tr_inc) ==
    LET kept == [i \in 1..Len(tr_inc) |-> tr_inc[i] /\ u.tr_included[i]]
        none_inc == \A i \in 1..Len(kept) : ~kept[i]
        all_inc == \A i \in 1..Len(kept) : kept[i]
        spk_inc ==
            IF all_inc
            THEN indices_in_window(u.time, Q(SeqMin(u.time), 1), Q(SeqMax(u.time), 1))
            ELSE IF none_inc
            THEN [i \in 1..Len(u.time) |-> FALSE]
            ELSE indices_in_window(u.time,
                                   Q(SeqMin(Select(u.TrialStart, kept)), 1),
                                   Q(SeqMax(Select(u.TrialStop, kept)), 1))
    IN  [u EXCEPT !.tr_included = kept,
                  !.QualityMetrics.keys = @ \cup {"NTrialsTotal", "NTrialsInc", "NTrialsExc"},
                  !.QualityMetrics.NTrialsTotal = Len(u.TrialStart),
                  !.QualityMetrics.NTrialsInc = NTrue(kept),
                  !.QualityMetrics.NTrialsExc = Len(kept) - NTrue(kept),
                  !.spk_included = spk_inc]

\* Unit.update_included_trials
update_included_trials(u, tr_inc) ==
    LET all_inc == \A i \in 1..Len(tr_inc) : tr_inc[i]
        none_inc == \A i \in 1..Len(tr_inc) : ~tr_inc[i]
        spk_inc ==
            IF all_inc
            THEN indices_in_window(u.time, Q(SeqMin(u.time), 1), Q(SeqMax(u.time), 1))
            ELSE IF none_inc
            \* min and max of no trial are NaN: no spike is in the window
            THEN [i \in 1..Len(u.time) |-> FALSE]
            ELSE indices_in_window(u.time,
                                   Q(SeqMin(Select(u.TrialStart, tr_inc)), 1),
                                   Q(SeqMax(Select(u.TrialStop, tr_inc)), 1))
    IN  [u EXCEPT !.tr_included = tr_inc,
                  !.QualityMetrics.keys = @ \cup {"NTrialsTotal", "NTrialsInc", "NTrialsExc"},
                  !.QualityMetrics.NTrialsTotal = Len(u.TrialStart),
                  !.QualityMetrics.NTrialsInc = NTrue(tr_inc),
                  !.QualityMetrics.NTrialsExc = Len(tr_inc) - NTrue(tr_inc),
                  !.spk_included = spk_inc]

(***************************************************************************)
(* test_qm on a non-empty unit, block by block.  A frame holds the unit    *)
(* and the locals of the call.                                             *)
(***************************************************************************)
\* lines 329-339: waveform statistics of each spike
QmWaveformStats(f) ==
    LET ws == calc_waveform_stats(f.u.Waveforms)
    IN  [f EXCEPT !.u.nvalid = ws.nvalid,
                  !.u.up_keys = @ \cup {"truncated", "minV", "maxV"},
                  !.u.truncated = ws.is_truncated,
                  !.u.minV = Min2(ws.minV, VMIN),
                  !.u.maxV = Max2(ws.maxV, VMAX)]

\* lines 341-348: time binned statistics
QmTimeBin(f) ==
    LET tb == time_bin_data(f.u.time, f.u.TrialStart, f.u.TrialStop)
    IN  [f EXCEPT !.tbins = tb.tbins,
                  !.tbin_vmid = TbinVmid(tb.tbins),
                  !.rate_t = rate_t(f.u.time, tb)]

\* variant: the masks are found but update_included_trials is not called
QmTrialExclusion_no_update(f) ==
    LET res == IF f.first_tr # NoBound /\ f.last_tr # NoBound
               THEN set_inc_trials(f.first_tr, f.last_tr, f.u.TrialStart,
                                   f.u.TrialStop, f.u.time, f.tbin_vmid)
               ELSE test_drift(f.rate_t, f.tbins, f.u.TrialStart, f.u.time)
    IN  [f EXCEPT !.res = res]

\* lines 350-360: trial exclusion
QmTrialExclusion(f) ==
    LET res == IF f.first_tr # NoBound /\ f.last_tr # NoBound
               THEN set_inc_trials(f.first_tr, f.last_tr, f.u.TrialStart,
                                   f.u.TrialStop, f.u.time, f.tbin_vmid)
               ELSE test_drift(f.rate_t, f.tbins, f.u.TrialStart, f.u.time)
    IN  [f EXCEPT !.res = res,
                  !.u = update_included_trials(f.u, res.tr_inc)]

\* mean_rate = np.sum(spk_inc) / float(t2_inc - t1_inc), in spikes per second
MeanRate(cnt, t1, t2) ==
    FDiv(cnt * TicksPerS * t1.d * t2.d, t2.n * t1.d - t1.n * t2.d)

\* lines 362-380: SNR, firing rate, ISI statistics, unit type.  The mean
\* waveform duration (a spline fit), the baseline rate and the task
\* relatedness (lines 374, 379, 380) rest on rate objects and helpers that
\* are not among the sources; they write their own three entries of
\* QualityMetrics and are not modelled.
QmMetrics(f) ==
    LET spk_inc == f.res.spk_inc
        snr == calc_snr(Select(f.u.Waveforms, spk_inc))
        mean_rate == MeanRate(NTrue(spk_inc), f.res.t1_inc, f.res.t2_inc)
        isi == isi_stats(Select(f.u.time, spk_inc))
        unit_type == classify_unit(snr, isi.true_spikes)
    IN  [f EXCEPT !.u.QualityMetrics.keys =
                      @ \cup {"SNR", "mFR", "ISIvr", "TrueSpikes", "UnitType"},
                  !.u.QualityMetrics.SNR = snr,
                  !.u.QualityMetrics.mFR = mean_rate,
                  !.u.QualityMetrics.ISIvr = isi.ISIvr,
                  !.u.QualityMetrics.TrueSpikes = isi.true_spikes,
                  !.u.QualityMetrics.UnitType = unit_type]

\* variant: the rejection test decides whatever the caller passed
QmExclusion_always_tested(f) ==
    [f EXCEPT !.rejection_tested = TRUE,
              !.u = set_excluded(f.u, ~test_rejection(f.u.QualityMetrics))]

\* lines 382-385: unit exclusion
QmExclusion(f) ==
    LET include == IF f.include = None
                   THEN test_rejection(f.u.QualityMetrics)
                   ELSE f.include = "True"
    IN  [f EXCEPT !.rejection_tested = (f.include = None),
                  !.u = set_excluded(f.u, ~include)]

\* the locals at the start of a call
Frame(u, include, first_tr, last_tr) ==
    [u |-> u, include |-> include, first_tr |-> first_tr, last_tr |-> last_tr,
     tbins |-> <<>>, tbin_vmid |-> <<>>, rate_t |-> <<>>, res |-> [none |-> TRUE],
     rejection_tested |-> FALSE]

\* the value of a call that returns None
NoRet == [none |-> TRUE]

\* lines 387-391: the unit the call leaves, the value it returns and whether
\* test_rejection was evaluated
QmReturn(f) ==
    [u |-> f.u,
     ret |-> [none |-> FALSE, rate_t |-> f.rate_t, tbins |-> f.tbins,
              t1_inc |-> f.res.t1_inc, t2_inc |-> f.res.t2_inc,
              prd_inc |-> f.res.prd_inc, tr_inc |-> f.res.tr_inc,
              spk_inc |-> f.res.spk_inc],
     rejection_tested |-> f.rejection_tested]

\* variant: the include argument is applied before the unit is found empty
test_qm_empty_check_late(u, include, first_tr, last_tr) ==
    IF u.empty
    THEN [u |-> IF include = None THEN u ELSE set_excluded(u, include # "True"),
          ret |-> NoRet, rejection_tested |-> FALSE]
    ELSE CHOOSE r \in
            {QmReturn(f6) : f6 \in
            {QmExclusion(f5) : f5 \in
            {QmMetrics(f4) : f4 \in
            {QmTrialExclusion(f3) : f3 \in
            {QmTimeBin(f2) : f2 \in
            {QmWaveformStats(f1) : f1 \in
            {Frame(u, include, first_tr, last_tr)}}}}}}} : TRUE

\* the whole call: each block is applied to the frame the blocks before it
\* left.  include is None, "True" or "False".
test_qm(u, include, first_tr, last_tr) ==
    IF u.empty THEN [u |-> u, ret |-> NoRet, rejection_tested |-> FALSE]
    ELSE CHOOSE r \in
            {QmReturn(f6) : f6 \in
            {QmExclusion(f5) : f5 \in
            {QmMetrics(f4) : f4 \in
            {QmTrialExclusion(f3) : f3 \in
            {QmTimeBin(f2) : f2 \in
            {QmWaveformStats(f1) : f1 \in
            {Frame(u, include, first_tr, last_tr)}}}}}}} : TRUE

(***************************************************************************)
(* Input data.  Spike trains are strictly increasing trains of at most     *)
(* MaxSpikes spikes at the times of SpikeGrid (0, 0.5 ms, 1 ms, 1 s,       *)
(* 125 s, 250 s, 360 s); trials are n trials a fixed step apart.           *)
(***************************************************************************)
SpikeGrid == {0, 20, 40, 40000, 5000000, 10000000, 14400000}

RECURSIVE SortedSeq(_)
SortedSeq(S) ==
    IF S = {} THEN <<>>
    ELSE LET m == CHOOSE x \in S : \A y \in S : x <= y
         IN  <<m>> \o SortedSeq(S \ {m})

SpikeTrains ==
    {SortedSeq(S) : S \in {T \in SUBSET SpikeGrid :
                              Cardinality(T) >= 1 /\ Cardinality(T) <= MaxSpikes}}

\* <<start of the first trial, step, length>> of the trials, in ticks:
\* short trials right after 0.75 ms, and trials 10 s apart that last 5 s or
\* no time at all
TrialLayouts == {<<30, 2, 2>>, <<0, 400000, 200000>>, <<0, 400000, 0>>}

NTrialChoices == {1} \cup (min_n_trs..MaxTrials)

TrialStarts(n, layout) == [i \in 1..n |-> layout[1] + (i - 1) * layout[2]]
TrialStops(n, layout) == [i \in 1..n |-> layout[1] + (i - 1) * layout[2] + layout[3]]

\* waveforms of ten samples; odd and even spikes alternate between two shapes.
\* The first spike has a sample below and one above the baseline 0, so in
\* every matrix the baseline samples differ from both extremes and the
\* spline of calc_wf_stats has points to fit.  "edge" has an SNR of exactly
\* 1 for two spikes.
WfPatterns == {"clean", "edge", "noisy"}

WfRow(p, i) ==
    LET a == CASE p = "clean" -> <<0 - 3, 3>>
               [] p = "edge" -> <<0 - 4, 2>>
               [] p = "noisy" -> <<0 - 1, 1>>
        b == CASE p = "clean" -> <<0 - 3, 4>>
               [] p = "edge" -> <<0 - 1, 0 - 2>>
               [] p = "noisy" -> <<5, 0>>
    IN  <<0, 0, 0, 0, 0, 0, 0, 0>> \o (IF i % 2 = 1 THEN a ELSE b)

WfMatrix(p, n) == [i \in 1..n |-> WfRow(p, i)]

DataUnits ==
    {NewUnit(WfMatrix(p, Len(spk)), spk, TrialStarts(n, lay), TrialStops(n, lay)) :
        p \in WfPatterns, spk \in SpikeTrains, n \in NTrialChoices, lay \in TrialLayouts}

\* the bounds a caller passes for a unit of n trials
BoundChoices(n) ==
    {<<NoBound, NoBound>>, <<n \div 2, NoBound>>, <<NoBound, n>>}
    \cup {b \in ({0, n \div 2} \cap (0..(n - 1))) \X {0, n \div 2, n} : b[1] <= b[2]}

IncludeChoices == {None, "True", "False"}

NoCall == [called |-> FALSE, include |-> None, first_tr |-> NoBound,
           last_tr |-> NoBound, rejection_tested |-> FALSE]

(***************************************************************************)
(* Spec: test_qm passes on a unit                                          *)
(***************************************************************************)
UnitIds == {1}

NoData == [none |-> TRUE]

\* no function-level call and no stepwise pass
NoSteps ==
    /\ fnIn = NoData
    /\ fnOut = NoData
    /\ pc = NoData
    /\ frame = NoData
    /\ hist = NoData

Idle ==
    /\ din = NoData
    /\ dres = NoData
    /\ mres = NoData
    /\ isiIn = <<>>
    /\ isiOut = NoData
    /\ NoSteps

Init ==
    /\ units \in [UnitIds -> {EmptyUnit} \cup DataUnits]
    /\ ret = [u \in UnitIds |-> NoRet]
    /\ call = [u \in UnitIds |-> NoCall]
    /\ Idle

TestQm(u, include, first_tr, last_tr) ==
    \E r \in {test_qm(units[u], include, first_tr, last_tr)} :
        /\ units' = [units EXCEPT ![u] = r.u]
        /\ ret' = [ret EXCEPT ![u] = r.ret]
        /\ call' = [call EXCEPT ![u] =
                        [called |-> TRUE, include |-> include,
                         first_tr |-> first_tr, last_tr |-> last_tr,
                         rejection_tested |-> r.rejection_tested]]
        /\ UNCHANGED <<din, dres, mres, isiIn, isiOut, fnIn, fnOut, pc, frame, hist>>

\* a unit with data is tested once, after its construction; an empty unit
\* any number of times
Next ==
    \E u \in UnitIds, include \in IncludeChoices :
        \E b \in BoundChoices(Len(units[u].TrialStart)) :
            /\ units[u].empty \/ ~call[u].called
            /\ TestQm(u, include, b[1], b[2])

Spec == Init /\ [][Next]_vars

(***************************************************************************)
(* SpecDrift: test_drift and set_inc_trials as functions of the same spike *)
(* and trial data                                                          *)
(***************************************************************************)
\* long sessions: DriftBins bins of MIN_BIN_LEN from 0, bin k holding c[k]
\* spikes one second apart from its start, and a last spike at the end of
\* the session
DriftTrain(c) ==
    SortedSeq(UNION {{(k - 1) * MIN_BIN_LEN + (m - 1) * TicksPerS : m \in 1..c[k]} :
                        k \in 1..DriftBins}
              \cup {DriftBins * MIN_BIN_LEN})

DriftTrains == {DriftTrain(c) : c \in [1..DriftBins -> 0..MaxBinSpikes]}

\* trials of 5 s every 10 s from 0 s, every 15 s from 0 s, and every 10 s
\* from 130 s: the trials are spread unevenly over the bins
DriftLayouts ==
    {<<0, 400000, 200000>>, <<0, 600000, 200000>>, <<5200000, 400000, 200000>>}

DriftInputs ==
    {[none |-> FALSE, spk_times |-> spk,
      tr_starts |-> TrialStarts(n, lay), tr_stops |-> TrialStops(n, lay)] :
        spk \in SpikeTrains, n \in NTrialChoices, lay \in TrialLayouts}
    \cup
    {[none |-> FALSE, spk_times |-> spk,
      tr_starts |-> TrialStarts(MaxTrials, lay),
      tr_stops |-> TrialStops(MaxTrials, lay)] :
        spk \in DriftTrains, lay \in DriftLayouts}

InitDrift ==
    /\ din \in DriftInputs
    /\ dres = NoData
    /\ mres = NoData
    /\ units = [u \in UnitIds |-> EmptyUnit]
    /\ ret = [u \in UnitIds |-> NoRet]
    /\ call = [u \in UnitIds |-> NoCall]
    /\ isiIn = <<>>
    /\ isiOut = NoData
    /\ NoSteps

\* test_drift on the rates test_qm computes from the data
DriftOf(d) ==
    CHOOSE r \in {test_drift(rate_t(d.spk_times, tb), tb.tbins, d.tr_starts, d.spk_times) :
                    tb \in {time_bin_data(d.spk_times, d.tr_starts, d.tr_stops)}} : TRUE

ManualOf(d, first_tr, last_tr) ==
    CHOOSE r \in {set_inc_trials(first_tr, last_tr, d.tr_starts, d.tr_stops,
                                 d.spk_times, TbinVmid(tb.tbins)) :
                    tb \in {time_bin_data(d.spk_times, d.tr_starts, d.tr_stops)}} : TRUE

TestDrift ==
    /\ dres = NoData
    /\ dres' = [none |-> FALSE, r |-> DriftOf(din)]
    /\ UNCHANGED <<units, ret, call, din, mres, isiIn, isiOut, fnIn, fnOut, pc, frame, hist>>

\* the caller's bounds
SetIncTrials(first_tr, last_tr) ==
    /\ mres' = [none |-> FALSE, src |-> "caller", r |-> ManualOf(din, first_tr, last_tr)]
    /\ UNCHANGED <<units, ret, call, din, dres, isiIn, isiOut, fnIn, fnOut, pc, frame, hist>>

\* the bounds test_drift found, fed back
FeedBack ==
    /\ dres # NoData
    /\ mres' = [none |-> FALSE, src |-> "drift",
                r |-> ManualOf(din, dres.r.first_tr, dres.r.last_tr)]
    /\ UNCHANGED <<units, ret, call, din, dres, isiIn, isiOut, fnIn, fnOut, pc, frame, hist>>

NextDrift ==
    \/ TestDrift
    \/ \E b \in BoundChoices(Len(din.tr_starts)) :
          b[1] # NoBound /\ b[2] # NoBound /\ SetIncTrials(b[1], b[2])
    \/ FeedBack

SpecDrift == InitDrift /\ [][NextDrift]_vars

(***************************************************************************)
(* SpecISI: isi_stats as a function of a sorted spike train                *)
(***************************************************************************)
\* 0, 0.5 ms, 1 ms, 1.5 ms, 100 ms
IsiGrid == {0, 20, 40, 60, 4000}

\* the train [0, 1, 2, 3, 100, 101, 102, 103] ms
ExampleTrain == <<0, 40, 80, 120, 4000, 4040, 4080, 4120>>

\* every sequence of at most MaxSpikes times of the grid, sorted or not,
\* with or without repeated times
IsiTrains ==
    {ExampleTrain} \cup UNION {[1..k -> IsiGrid] : k \in 0..MaxSpikes}

InitISI ==
    /\ isiIn \in IsiTrains
    /\ isiOut = NoData
    /\ din = NoData
    /\ dres = NoData
    /\ mres = NoData
    /\ units = [u \in UnitIds |-> EmptyUnit]
    /\ ret = [u \in UnitIds |-> NoRet]
    /\ call = [u \in UnitIds |-> NoCall]
    /\ NoSteps

IsiStats ==
    /\ isiOut = NoData
    /\ isiOut' = [none |-> FALSE, r |-> isi_stats(isiIn)]
    /\ UNCHANGED <<units, ret, call, din, dres, mres, isiIn, fnIn, fnOut, pc, frame, hist>>

NextISI == IsiStats

SpecISI == InitISI /\ [][NextISI]_vars

(***************************************************************************)
(* SpecNoTrials: test_qm on a unit that has spikes and no trial.  The      *)
(* source has no branch for it; how far the pass gets rests on what the    *)
(* libraries make of an empty trial table, so each way is an action: the   *)
(* pass runs to its end (min and max of no trial are NaN, 0/0 trials is    *)
(* NaN), it raises where the trial times are first used (line 343, after   *)
(* the waveform statistics were written), or it raises at the division by  *)
(* NTrialsTotal = 0 of test_rejection (line 416, after QualityMetrics was   *)
(* written).                                                               *)
(***************************************************************************)
NoTrialUnits ==
    {NewUnit(WfMatrix(p, Len(spk)), spk, <<>>, <<>>) :
        p \in WfPatterns, spk \in SpikeTrains}

\* the value of a call that raised at the given line
Raised(line) == [none |-> FALSE, raised |-> line]

InitNoTrials ==
    /\ units \in [UnitIds -> NoTrialUnits]
    /\ ret = [u \in UnitIds |-> NoRet]
    /\ call = [u \in UnitIds |-> NoCall]
    /\ Idle

\* the unit as lines 329-339 leave it
UnitAtTrialTimes(u, include, first_tr, last_tr) ==
    QmWaveformStats(Frame(u, include, first_tr, last_tr)).u

\* the unit as lines 329-380 leave it
UnitAtRejection(u, include, first_tr, last_tr) ==
    CHOOSE r \in
        {f5.u : f5 \in
        {QmMetrics(f4) : f4 \in
        {QmTrialExclusion(f3) : f3 \in
        {QmTimeBin(f2) : f2 \in
        {QmWaveformStats(f1) : f1 \in
        {Frame(u, include, first_tr, last_tr)}}}}}} : TRUE

Called(include, first_tr, last_tr, tested) ==
    [called |-> TRUE, include |-> include, first_tr |-> first_tr,
     last_tr |-> last_tr, rejection_tested |-> tested]

\* the pass runs to its end
TestQmCompletes(u, include, first_tr, last_tr) ==
    /\ ~call[u].called
    /\ TestQm(u, include, first_tr, last_tr)

\* the pass raises at the first use of the trial times
TestQmRaisesAtTrialTimes(u, include, first_tr, last_tr) ==
    /\ ~call[u].called
    /\ units' = [units EXCEPT ![u] =
                    UnitAtTrialTimes(units[u], include, first_tr, last_tr)]
    /\ ret' = [ret EXCEPT ![u] = Raised(343)]
    /\ call' = [call EXCEPT ![u] = Called(include, first_tr, last_tr, FALSE)]
    /\ UNCHANGED <<din, dres, mres, isiIn, isiOut, fnIn, fnOut, pc, frame, hist>>

\* the pass raises at the division by the number of trials
TestQmRaisesAtRejection(u, first_tr, last_tr) ==
    /\ ~call[u].called
    /\ units' = [units EXCEPT ![u] =
                    UnitAtRejection(units[u], None, first_tr, last_tr)]
    /\ ret' = [ret EXCEPT ![u] = Raised(416)]
    /\ call' = [call EXCEPT ![u] = Called(None, first_tr, last_tr, TRUE)]
    /\ UNCHANGED <<din, dres, mres, isiIn, isiOut, fnIn, fnOut, pc, frame, hist>>

NextNoTrials ==
    \E u \in UnitIds, include \in IncludeChoices :
        \E b \in BoundChoices(Len(units[u].TrialStart)) :
            \/ TestQmCompletes(u, include, b[1], b[2])
            \/ TestQmRaisesAtTrialTimes(u, include, b[1], b[2])
            \/ include = None /\ TestQmRaisesAtRejection(u, b[1], b[2])

SpecNoTrials == InitNoTrials /\ [][NextNoTrials]_vars

(***************************************************************************)
(* SpecPar: test_qm passes on two units, run block by block and            *)
(* interleaved in any order.  din keeps the units as they were built.      *)
(***************************************************************************)
ParIds == {1, 2}

\* the empty unit, and units of MaxTrials trials: two spikes 1 ms apart
\* with short trials, or three spikes over 250 s with trials 10 s apart
ParUnits ==
    {EmptyUnit} \cup
    {NewUnit(WfMatrix(p, Len(d[1])), d[1],
             TrialStarts(MaxTrials, d[2]), TrialStops(MaxTrials, d[2])) :
        p \in {"clean", "noisy"},
        d \in {<<<<0, 40>>, <<30, 2, 2>>>>,
               <<<<0, 40000, 10000000>>, <<0, 400000, 200000>>>>}}

\* no bounds, or the bounds of all trials
ParBounds(n) == {<<NoBound, NoBound>>, <<0, n>>}

InitPar ==
    /\ units \in [ParIds -> ParUnits]
    /\ din = units
    /\ ret = [u \in ParIds |-> NoRet]
    /\ call = [u \in ParIds |-> NoCall]
    /\ pc = [u \in ParIds |-> "idle"]
    /\ frame = [u \in ParIds |-> NoData]
    /\ hist = NoData
    /\ dres = NoData
    /\ mres = NoData
    /\ isiIn = <<>>
    /\ isiOut = NoData
    /\ fnIn = NoData
    /\ fnOut = NoData

\* variant: the excluded flag is one attribute shared by all units
WriteUnit_shared_excluded(us, u, newu) ==
    [v \in DOMAIN us |->
        IF v = u THEN newu ELSE [us[v] EXCEPT !.excluded = newu.excluded]]

\* the writes of a pass go to the fields of the unit it was passed
WriteUnit(us, u, newu) == [us EXCEPT ![u] = newu]

\* the locals of the pass on u; its u is the unit object itself
FrameOf(u) == [frame[u] EXCEPT !.u = units[u]]

\* lines 313-326: the call and the test for an empty unit
StartQm(u, include, first_tr, last_tr) ==
    /\ pc[u] = "idle"
    /\ call' = [call EXCEPT ![u] = Called(include, first_tr, last_tr, FALSE)]
    /\ IF units[u].empty
       THEN /\ pc' = [pc EXCEPT ![u] = "done"]
            /\ UNCHANGED frame
       ELSE /\ pc' = [pc EXCEPT ![u] = "waveform_stats"]
            /\ frame' = [frame EXCEPT ![u] =
                            Frame(units[u], include, first_tr, last_tr)]
    /\ UNCHANGED <<units, ret, din, dres, mres, isiIn, isiOut, fnIn, fnOut, hist>>

\* lines 329-339
RunWaveformStats(u) ==
    /\ pc[u] = "waveform_stats"
    /\ \E f \in {QmWaveformStats(FrameOf(u))} :
          /\ units' = WriteUnit(units, u, f.u)
          /\ frame' = [frame EXCEPT ![u] = f]
    /\ pc' = [pc EXCEPT ![u] = "time_bin"]
    /\ UNCHANGED <<ret, call, din, dres, mres, isiIn, isiOut, fnIn, fnOut, hist>>

\* lines 341-348
RunTimeBin(u) ==
    /\ pc[u] = "time_bin"
    /\ \E f \in {QmTimeBin(FrameOf(u))} :
          /\ units' = WriteUnit(units, u, f.u)
          /\ frame' = [frame EXCEPT ![u] = f]
    /\ pc' = [pc EXCEPT ![u] = "trial_exclusion"]
    /\ UNCHANGED <<ret, call, din, dres, mres, isiIn, isiOut, fnIn, fnOut, hist>>

\* lines 350-360
RunTrialExclusion(u) ==
    /\ pc[u] = "trial_exclusion"
    /\ \E f \in {QmTrialExclusion(FrameOf(u))} :
          /\ units' = WriteUnit(units, u, f.u)
          /\ frame' = [frame EXCEPT ![u] = f]
    /\ pc' = [pc EXCEPT ![u] = "metrics"]
    /\ UNCHANGED <<ret, call, din, dres, mres, isiIn, isiOut, fnIn, fnOut, hist>>

\* lines 362-380
RunMetrics(u) ==
    /\ pc[u] = "metrics"
    /\ \E f \in {QmMetrics(FrameOf(u))} :
          /\ units' = WriteUnit(units, u, f.u)
          /\ frame' = [frame EXCEPT ![u] = f]
    /\ pc' = [pc EXCEPT ![u] = "exclusion"]
    /\ UNCHANGED <<ret, call, din, dres, mres, isiIn, isiOut, fnIn, fnOut, hist>>

\* lines 382-385
RunExclusion(u) ==
    /\ pc[u] = "exclusion"
    /\ \E f \in {QmExclusion(FrameOf(u))} :
          /\ units' = WriteUnit(units, u, f.u)
          /\ frame' = [frame EXCEPT ![u] = f]
    /\ pc' = [pc EXCEPT ![u] = "return"]
    /\ UNCHANGED <<ret, call, din, dres, mres, isiIn, isiOut, fnIn, fnOut, hist>>

\* lines 387-391
RunReturn(u) ==
    /\ pc[u] = "return"
    /\ \E r \in {QmReturn(FrameOf(u))} :
          /\ ret' = [ret EXCEPT ![u] = r.ret]
          /\ call' = [call EXCEPT ![u].rejection_tested = r.rejection_tested]
    /\ pc' = [pc EXCEPT ![u] = "done"]
    /\ UNCHANGED <<units, din, dres, mres, isiIn, isiOut, fnIn, fnOut, frame, hist>>

NextPar ==
    \E u \in ParIds :
        \/ \E include \in IncludeChoices :
              \E b \in ParBounds(Len(units[u].TrialStart)) :
                  StartQm(u, include, b[1], b[2])
        \/ RunWaveformStats(u)
        \/ RunTimeBin(u)
        \/ RunTrialExclusion(u)
        \/ RunMetrics(u)
        \/ RunExclusion(u)
        \/ RunReturn(u)

SpecPar == InitPar /\ [][NextPar]_vars

(***************************************************************************)
(* SpecRerun: up to MaxPasses test_qm passes on the same unit, one after   *)
(* the other, each run block by block.  din keeps the unit as it was       *)
(* built, ret the value of the last pass that returned.                    *)
(***************************************************************************)
\* no bounds, the bounds of all trials, or those of the second half
RerunBounds(n) == {<<NoBound, NoBound>>, <<0, n>>, <<n \div 2, n>>}

InitRerun ==
    /\ units \in [UnitIds -> ParUnits]
    /\ din = units
    /\ ret = [u \in UnitIds |-> NoRet]
    /\ call = [u \in UnitIds |-> NoCall]
    /\ pc = [u \in UnitIds |-> "idle"]
    /\ frame = [u \in UnitIds |-> NoData]
    /\ hist = [u \in UnitIds |-> <<>>]
    /\ dres = NoData
    /\ mres = NoData
    /\ isiIn = <<>>
    /\ isiOut = NoData
    /\ fnIn = NoData
    /\ fnOut = NoData

\* lines 313-326 of a first or a later call on the unit
StartPass(u, include, first_tr, last_tr) ==
    /\ pc[u] \in {"idle", "done"}
    /\ Len(hist[u]) < MaxPasses
    /\ hist' = [hist EXCEPT ![u] =
                    Append(@, [include |-> include, first_tr |-> first_tr,
                               last_tr |-> last_tr])]
    /\ call' = [call EXCEPT ![u] = Called(include, first_tr, last_tr, FALSE)]
    /\ IF units[u].empty
       THEN /\ pc' = [pc EXCEPT ![u] = "done"]
            /\ ret' = [ret EXCEPT ![u] = NoRet]
            /\ UNCHANGED frame
       ELSE /\ pc' = [pc EXCEPT ![u] = "waveform_stats"]
            /\ frame' = [frame EXCEPT ![u] =
                            Frame(units[u], include, first_tr, last_tr)]
            /\ UNCHANGED ret
    /\ UNCHANGED <<units, din, dres, mres, isiIn, isiOut, fnIn, fnOut>>

NextRerun ==
    \E u \in UnitIds :
        \/ \E include \in IncludeChoices :
              \E b \in RerunBounds(Len(units[u].TrialStart)) :
                  StartPass(u, include, b[1], b[2])
        \/ RunWaveformStats(u)
        \/ RunTimeBin(u)
        \/ RunTrialExclusion(u)
        \/ RunMetrics(u)
        \/ RunExclusion(u)
        \/ RunReturn(u)

SpecRerun == InitRerun /\ [][NextRerun]_vars

(***************************************************************************)
(* SpecBin: time_bin_data as a function of spike and trial times           *)
(***************************************************************************)
InitBin ==
    /\ din \in DriftInputs
    /\ fnIn = NoData
    /\ fnOut = NoData
    /\ units = [u \in UnitIds |-> EmptyUnit]
    /\ ret = [u \in UnitIds |-> NoRet]
    /\ call = [u \in UnitIds |-> NoCall]
    /\ dres = NoData
    /\ mres = NoData
    /\ isiIn = <<>>
    /\ isiOut = NoData
    /\ pc = NoData
    /\ frame = NoData
    /\ hist = NoData

TimeBinData ==
    /\ fnOut = NoData
    /\ fnOut' = [none |-> FALSE,
                 r |-> time_bin_data(din.spk_times, din.tr_starts, din.tr_stops)]
    /\ UNCHANGED <<units, ret, call, din, dres, mres, isiIn, isiOut, fnIn, pc, frame, hist>>

NextBin == TimeBinData

SpecBin == InitBin /\ [][NextBin]_vars

\* no unit, no drift data, no spike train
NoUnits ==
    /\ units = [u \in UnitIds |-> EmptyUnit]
    /\ ret = [u \in UnitIds |-> NoRet]
    /\ call = [u \in UnitIds |-> NoCall]
    /\ din = NoData
    /\ dres = NoData
    /\ mres = NoData
    /\ isiIn = <<>>
    /\ isiOut = NoData
    /\ pc = NoData
    /\ frame = NoData
    /\ hist = NoData

(***************************************************************************)
(* SpecReject: test_rejection as a function of the QualityMetrics of a     *)
(* unit that has trials                                                    *)
(***************************************************************************)
\* NaN, a value at the threshold 1 and values on either side of it
GateValues == {NaN, Q(1, 2), Q(1, 1), Q(2, 1)}

\* trial counts at and above min_n_trs, with none, fewer than half, half,
\* more than half or all of the trials included
GateTrials ==
    {<<n, i>> : n \in {min_n_trs, MaxTrials},
                i \in {0, min_n_trs \div 2, MaxTrials \div 2, MaxTrials \div 2 + 1,
                       min_n_trs}}

RejectInputs ==
    {[none |-> FALSE,
      qm |-> [EmptyQM EXCEPT
                !.keys = {"SNR", "mFR", "ISIvr", "TrueSpikes", "UnitType",
                          "NTrialsTotal", "NTrialsInc", "NTrialsExc"},
                !.SNR = snr, !.mFR = fr, !.ISIvr = vr,
                !.NTrialsTotal = t[1], !.NTrialsInc = t[2],
                !.NTrialsExc = t[1] - t[2]]] :
        snr \in GateValues, fr \in GateValues, vr \in GateValues, t \in GateTrials}

InitReject ==
    /\ fnIn \in RejectInputs
    /\ fnOut = NoData
    /\ NoUnits

TestRejection ==
    /\ fnOut = NoData
    /\ fnOut' = [none |-> FALSE, r |-> test_rejection(fnIn.qm)]
    /\ UNCHANGED <<units, ret, call, din, dres, mres, isiIn, isiOut, fnIn, pc, frame, hist>>

NextReject == TestRejection

SpecReject == InitReject /\ [][NextReject]_vars

(***************************************************************************)
(* SpecSNR: calc_snr as a function of a waveform matrix                    *)
(***************************************************************************)
\* the last two of the ten samples of a waveform; the first eight are 0
SnrRowEnds == {<<0 - 3, 3>>, <<0 - 3, 4>>, <<0 - 3, 0>>, <<0, 0>>, <<5, 0>>}

SnrRows == {<<0, 0, 0, 0, 0, 0, 0, 0>> \o e : e \in SnrRowEnds}

\* every matrix of at most MaxSpikes of these rows: no row, one row, equal
\* rows, flat rows, different rows
SnrInputs ==
    {[none |-> FALSE, waveforms |-> m] :
        m \in UNION {[1..k -> SnrRows] : k \in 0..MaxSpikes}}

InitSNR ==
    /\ fnIn \in SnrInputs
    /\ fnOut = NoData
    /\ NoUnits

CalcSnr ==
    /\ fnOut = NoData
    /\ fnOut' = [none |-> FALSE, r |-> calc_snr(fnIn.waveforms)]
    /\ UNCHANGED <<units, ret, call, din, dres, mres, isiIn, isiOut, fnIn, pc, frame, hist>>

NextSNR == CalcSnr

SpecSNR == InitSNR /\ [][NextSNR]_vars

(***************************************************************************)
(* SpecWf: calc_waveform_stats as a function of a waveform matrix.  Every  *)
(* row has a sample below and a sample above the baseline 0, so at least   *)
(* seven samples of each row differ from both extremes and the spline of   *)
(* calc_wf_stats has points to fit; the fit itself (duration, amplitude)   *)
(* is not modelled.                                                        *)
(***************************************************************************)
\* the last three of the ten samples of a waveform; the first seven are 0:
\* sharp spikes, a small spike, and spikes with a flat peak or a flat trough
WfRowEnds ==
    {<<0, 0 - 3, 3>>, <<0, 0 - 3, 4>>, <<0, 0 - 2, 2>>,
     <<0 - 3, 3, 3>>, <<0 - 3, 0 - 3, 3>>, <<0 - 3, 4, 4>>}

WfRows == {<<0, 0, 0, 0, 0, 0, 0>> \o e : e \in WfRowEnds}

\* every matrix of one to MaxSpikes of these rows
WfInputs ==
    {[none |-> FALSE, waveforms |-> m] :
        m \in UNION {[1..k -> WfRows] : k \in 1..MaxSpikes}}

InitWf ==
    /\ fnIn \in WfInputs
    /\ fnOut = NoData
    /\ NoUnits

CalcWaveformStats ==
    /\ fnOut = NoData
    /\ fnOut' = [none |-> FALSE, r |-> calc_waveform_stats(fnIn.waveforms)]
    /\ UNCHANGED <<units, ret, call, din, dres, mres, isiIn, isiOut, fnIn, pc, frame, hist>>

NextWf == CalcWaveformStats

SpecWf == InitWf /\ [][NextWf]_vars

(***************************************************************************)
(* SpecClassify: classify_unit as a function of SNR and true spikes        *)
(***************************************************************************)
\* NaN, inf, 0, 1.99, 2, 2.01 and the roots of 3.99, 4 and 5
SnrValues ==
    {NaN, PInf, Q(0, 1), Q(199, 100), Q(2, 1), Q(201, 100),
     [Q(399, 100) EXCEPT !.k = "root"], [Q(4, 1) EXCEPT !.k = "root"],
     [Q(5, 1) EXCEPT !.k = "root"]}

\* NaN, 0, 89.99, 90, 100 and the Hill estimates 100*(1/2 + sqrt(x)) for
\* x = 0, 0.15, 0.16 and 0.25, that is 50, 88.7, 90 and 100
TrueSpikesValues ==
    {NaN, Q(0, 1), Q(8999, 100), Q(90, 1), Q(100, 1),
     Hill(0, 1), Hill(15, 100), Hill(16, 100), Hill(1, 4)}

ClassifyInputs ==
    {[none |-> FALSE, snr |-> x, true_spikes |-> y] :
        x \in SnrValues, y \in TrueSpikesValues}

InitClassify ==
    /\ fnIn \in ClassifyInputs
    /\ fnOut = NoData
    /\ NoUnits

ClassifyUnit ==
    /\ fnOut = NoData
    /\ fnOut' = [none |-> FALSE, r |-> classify_unit(fnIn.snr, fnIn.true_spikes)]
    /\ UNCHANGED <<units, ret, call, din, dres, mres, isiIn, isiOut, fnIn, pc, frame, hist>>

NextClassify == ClassifyUnit

SpecClassify == InitClassify /\ [][NextClassify]_vars

(***************************************************************************)
(* Properties of a test_qm pass (Spec)                                     *)
(***************************************************************************)
\* a pass on a unit with data has been made
Tested(u) == call[u].called /\ ~units[u].empty

\* the five criteria with the thresholds the specification states
AllFivePass(qm) ==
    /\ GtC(qm.SNR, 1)
    /\ GtC(qm.mFR, 1)
    /\ LtC(qm.ISIvr, 1)
    /\ qm.NTrialsTotal > 20
    /\ qm.NTrialsTotal # 0
    /\ 100 * qm.NTrialsInc > 50 * qm.NTrialsTotal

\* C1: after a test_qm pass with include=None on a unit with data, the unit
\* is excluded if and only if at least one of the five criteria fails on the
\* metrics the pass stored (SNR <= 1, mFR <= 1, ISIvr >= 1, NTrialsTotal <= 20
\* or 100 * NTrialsInc / NTrialsTotal <= 50).
C1_ExcludedIffACriterionFails ==
    \A u \in UnitIds :
        (Tested(u) /\ call[u].include = None)
            => (units[u].excluded <=> ~AllFivePass(units[u].QualityMetrics))

\* a pass with include=None where the SNR criterion alone fails, at SNR = 1,
\* and the unit is excluded
C1_Witness ==
    \E u \in UnitIds :
        /\ Tested(u) /\ call[u].include = None
        /\ units[u].excluded
        /\ call[u].rejection_tested
        /\ ~IsNaN(units[u].QualityMetrics.SNR)
        /\ ~GtC(units[u].QualityMetrics.SNR, 1)
        /\ AllFivePass([units[u].QualityMetrics EXCEPT !.SNR = Q(2, 1)])

C3_IncludeOverridesGate ==
    \A u \in UnitIds :
        (Tested(u) /\ call[u].include # None)
            => /\ ~call[u].rejection_tested
               /\ units[u].excluded <=> (call[u].include = "False")

\* a pass with include=True on a unit whose stored metrics fail the
\* criteria: the unit is not excluded
C3_Witness ==
    \E u \in UnitIds :
        /\ Tested(u) /\ call[u].include = "True"
        /\ "SNR" \in units[u].QualityMetrics.keys
        /\ ~AllFivePass(units[u].QualityMetrics)
        /\ ~units[u].excluded

\* C4: test_qm on an empty unit returns at once: the unit stays as it was
\* built (excluded, no quality metrics, no waveform statistics), nothing is
\* returned and the rejection test is not evaluated.
C4_EmptyUnitUntouched ==
    \A u \in UnitIds :
        units[u].empty
            => /\ units[u] = EmptyUnit
               /\ ret[u] = NoRet
               /\ ~call[u].rejection_tested

\* test_qm was called with include=True on an empty unit
C4_Witness ==
    \E u \in UnitIds :
        /\ units[u].empty
        /\ call[u].called
        /\ call[u].include = "True"

\* start and stop of the session of a unit: the earliest and the latest of
\* its spike times, trial starts and trial stops
SessionStart(u) == Min2(SeqMin(units[u].time), SeqMin(units[u].TrialStart))
SessionStop(u) == Max2(SeqMax(units[u].time), SeqMax(units[u].TrialStop))

\* the trial mask and the time bounds the caller's bounds lo, hi stand for
ManualMaskOk(u, lo, hi) ==
    LET n == Len(units[u].TrialStart)
    IN  /\ \A i \in 1..n : units[u].tr_included[i] <=> (lo <= i - 1 /\ i - 1 < hi)
        /\ ret[u].tr_inc = units[u].tr_included
        /\ ret[u].t1_inc = Q(IF lo = 0 THEN SessionStart(u)
                             ELSE units[u].TrialStart[lo + 1], 1)
        /\ ret[u].t2_inc = Q(IF hi = n THEN SessionStop(u)
                             ELSE units[u].TrialStart[hi + 1], 1)

\* C7 as stated: whenever the caller supplies a bound to test_qm (first_tr,
\* last_tr or both; a bound left out is the open end of the session), the
\* included-trial mask is exactly [first_tr, last_tr) and t1_inc, t2_inc
\* follow from the bounds.
C7_AnyBoundSupplied ==
    \A u \in UnitIds :
        (Tested(u) /\ (call[u].first_tr # NoBound \/ call[u].last_tr # NoBound))
            => ManualMaskOk(u,
                   IF call[u].first_tr = NoBound THEN 0 ELSE call[u].first_tr,
                   IF call[u].last_tr = NoBound THEN Len(units[u].TrialStart)
                   ELSE call[u].last_tr)

\* C7, amended: when the caller supplies both first_tr and last_tr to
\* test_qm (0 <= first_tr < number of trials, first_tr <= last_tr <= number
\* of trials), the included-trial mask after the pass is exactly the trial
\* indices in [first_tr, last_tr); t1_inc is the session start if
\* first_tr = 0 and otherwise the start of trial first_tr; t2_inc is the
\* session stop if last_tr = number of trials and otherwise the start of
\* trial last_tr.
C7_BothBoundsSupplied ==
    \A u \in UnitIds :
        (Tested(u) /\ call[u].first_tr # NoBound /\ call[u].last_tr # NoBound)
            => ManualMaskOk(u, call[u].first_tr, call[u].last_tr)

\* a pass with both bounds, on a session that starts with a spike before
\* the first trial, leaving trials out at the end
C7_Witness ==
    \E u \in UnitIds :
        /\ Tested(u)
        /\ call[u].first_tr = 0
        /\ call[u].last_tr > 0
        /\ call[u].last_tr < Len(units[u].TrialStart)
        /\ SessionStart(u) < units[u].TrialStart[1]

(***************************************************************************)
(* Properties of test_drift and set_inc_trials (SpecDrift)                 *)
(***************************************************************************)
\* the per-bin firing rates of the data
RatesOf(d) == rate_t(d.spk_times, time_bin_data(d.spk_times, d.tr_starts, d.tr_stops))

\* no rate is more than twice another one
NoDrift(v) == \A a \in 1..Len(v), b \in 1..Len(v) : ~VGtPct(v[a], 200, v[b])

DataStart(d) == Min2(SeqMin(d.spk_times), SeqMin(d.tr_starts))
DataStop(d) == Max2(SeqMax(d.spk_times), SeqMax(d.tr_stops))

HalfOpenMasks(r, d) ==
    /\ \A i \in 1..Len(d.tr_starts) :
          r.tr_inc[i] <=> (r.first_tr <= i - 1 /\ i - 1 < r.last_tr)
    /\ \A j \in 1..Len(d.spk_times) :
          r.spk_inc[j] <=> (TimeLe(r.t1_inc, d.spk_times[j])
                            /\ ~TimeLe(r.t2_inc, d.spk_times[j]))

WholeSession ==
    /\ dres # NoData
    /\ dres.r.prd1 = 0
    /\ dres.r.prd2 = Len(dres.r.prd_inc) - 1
    /\ dres.r.first_tr = 0
    /\ dres.r.last_tr = Len(din.tr_starts)

\* C8: when test_drift selects the whole session (first_tr = 0, last_tr =
\* number of trials), set_inc_trials called with those bounds on the same
\* data returns the same trial mask, the same spike mask and the same
\* t1_inc and t2_inc.
C8_RoundTripFullSession ==
    (WholeSession /\ mres # NoData /\ mres.src = "drift")
        => /\ mres.r.tr_inc = dres.r.tr_inc
           /\ mres.r.spk_inc = dres.r.spk_inc
           /\ mres.r.t1_inc = dres.r.t1_inc
           /\ mres.r.t2_inc = dres.r.t2_inc

\* the bounds of a whole session of several bins were fed back; the session
\* ends with a spike after the last trial, and a spike is left out
C8_Witness ==
    /\ WholeSession
    /\ mres # NoData
    /\ mres.src = "drift"
    /\ Len(dres.r.prd_inc) > 1
    /\ SeqMax(din.spk_times) > SeqMax(din.tr_stops)
    /\ \E j \in 1..Len(din.spk_times) : ~mres.r.spk_inc[j]

(***************************************************************************)
(* Properties of isi_stats (SpecISI)                                       *)
(***************************************************************************)
\* C9: isi_stats returns (NaN, NaN) for no spike and (100, 0) for exactly
\* one spike, and in both cases no interval is computed.
C9_NoSpikeOneSpike ==
    isiOut # NoData
        => /\ Len(isiIn) = 0
                => /\ IsNaN(isiOut.r.true_spikes)
                   /\ IsNaN(isiOut.r.ISIvr)
                   /\ isiOut.r.n_isi = 0
           /\ Len(isiIn) = 1
                => /\ isiOut.r.true_spikes = Q(100, 1)
                   /\ isiOut.r.ISIvr = Q(0, 1)
                   /\ isiOut.r.n_isi = 0

\* isi_stats has returned for a train of exactly one spike
C9_Witness == isiOut # NoData /\ Len(isiIn) = 1

\* C10 as stated: for the spike times [0,1,2,3,100,101,102,103] ms
\* isi_stats counts 2 of the 7 intervals as violations and reports
\* 100 * 2 / 7 percent.
C10_TwoOfSeven ==
    (isiOut # NoData /\ isiIn = ExampleTrain)
        => /\ isiOut.r.n_isi = 7
           /\ isiOut.r.n_ISI_vr = 2
           /\ isiOut.r.ISIvr = Q(200, 7)

\* C10, amended: for the spike times [0,1,2,3,100,101,102,103] ms the
\* seven intervals are 1, 1, 1, 97, 1, 1, 1 ms; none is below the 1 ms
\* threshold, so isi_stats counts 0 of 7 violations and reports 0 percent
\* (and 100 percent true spikes).
C10_NoneOfSeven ==
    (isiOut # NoData /\ isiIn = ExampleTrain)
        => /\ isiOut.r.n_isi = 7
           /\ isiOut.r.n_ISI_vr = 0
           /\ isiOut.r.ISIvr = Q(0, 1)
           /\ GeC(isiOut.r.true_spikes, 100)

\* isi_stats has returned for the example train
C10_Witness == isiOut # NoData /\ isiIn = ExampleTrain

\* C11: for every spike-time sequence of at least 2 spikes, the violation
\* count isi_stats finds is between 0 and the number of intervals N - 1,
\* and the violation percent it returns lies in [0, 100].
C11_ViolationPercentInRange ==
    (isiOut # NoData /\ Len(isiIn) >= 2)
        => /\ isiOut.r.n_isi = Len(isiIn) - 1
           /\ isiOut.r.n_ISI_vr >= 0
           /\ isiOut.r.n_ISI_vr <= isiOut.r.n_isi
           /\ isiOut.r.ISIvr.k = "num"
           /\ GeC(isiOut.r.ISIvr, 0)
           /\ ~GtC(isiOut.r.ISIvr, 100)

\* isi_stats has returned for a train of 3 spikes in which every interval
\* is a violation: 100 percent
C11_Witness ==
    /\ isiOut # NoData
    /\ Len(isiIn) = 3
    /\ isiOut.r.n_ISI_vr = 2
    /\ isiOut.r.ISIvr = Q(100, 1)

(***************************************************************************)
(* Properties of calc_snr (SpecSNR) and classify_unit (SpecClassify)       *)
(***************************************************************************)
\* C12: calc_snr returns NaN for every waveform set of fewer than 2 rows,
\* and a finite value >= 0 for every waveform set of 2 or more rows,
\* including when all rows are identical.
C12_NaNOrFiniteNonNegative ==
    fnOut # NoData
        => IF Len(fnIn.waveforms) < 2
           THEN IsNaN(fnOut.r)
           ELSE fnOut.r.k \in {"num", "root"} /\ GeC(fnOut.r, 0)

\* C13: classify_unit returns 'single unit' iff true_spikes >= 90 and
\* snr >= 2 (both inclusive) and 'multi unit' otherwise, also when snr or
\* true_spikes is NaN; it returns no other label.
C13_SingleUnitIffBothThresholds ==
    fnOut # NoData
        => /\ fnOut.r \in {"single unit", "multi unit"}
           /\ fnOut.r = "single unit"
                <=> (GeC(fnIn.true_spikes, 90) /\ GeC(fnIn.snr, 2))
           /\ (IsNaN(fnIn.snr) \/ IsNaN(fnIn.true_spikes))
                => fnOut.r = "multi unit"

\* classify_unit has returned 'single unit' with both values exactly at
\* their thresholds: the Hill estimate for sqrt(det) = 0.4 and the SNR
\* sqrt(4)
C13_Witness ==
    /\ fnOut # NoData
    /\ fnIn.true_spikes = Hill(16, 100)
    /\ fnIn.snr = [Q(4, 1) EXCEPT !.k = "root"]
    /\ fnOut.r = "single unit"

(***************************************************************************)
(* Properties of the drift window (SpecDrift)                              *)
(***************************************************************************)
\* bins and rates test_qm hands to test_drift
BinsOf(d) == time_bin_data(d.spk_times, d.tr_starts, d.tr_stops).tbins

\* the rates of bins a..b (1-based) are pairwise within the drift ratio
PairwiseBounded(v, a, b) ==
    \A x \in a..b, y \in a..b : ~VGtPct(v[x], MAX_DRIFT_PCT, v[y])

\* trials started within bins s..e (1-based)
TrialsOfRun(tr_starts, tbins, s, e) ==
    NTrialsBefore(tr_starts, tbins[e][2]) - NTrialsBefore(tr_starts, tbins[s][1])

\* C14: for every candidate start bin i the recorded run contains at least
\* bin i (prd_end_i >= i, n_prd >= 1) and has tr_start_i <= tr_end_i; hence
\* the returned trial range has first_tr <= last_tr and the included-trial
\* count n_tr is never negative.
C14_RunsWellFormed ==
    dres # NoData
        => /\ \A i \in 1..Len(dres.r.prd_res) :
                /\ dres.r.prd_res[i].prd_start_i = i - 1
                /\ dres.r.prd_res[i].prd_end_i >= i - 1
                /\ dres.r.prd_res[i].n_prd >= 1
                /\ dres.r.prd_res[i].tr_start_i <= dres.r.prd_res[i].tr_end_i
                /\ dres.r.prd_res[i].n_tr >= 0
           /\ dres.r.first_tr <= dres.r.last_tr
           /\ NTrue(dres.r.tr_inc) = dres.r.last_tr - dres.r.first_tr

\* test_drift has recorded a run of two bins that holds trials and a run
\* that holds none
C14_Witness ==
    /\ dres # NoData
    /\ \E i \in 1..Len(dres.r.prd_res) :
          dres.r.prd_res[i].n_prd = 2 /\ dres.r.prd_res[i].n_tr > 0
    /\ \E i \in 1..Len(dres.r.prd_res) :
          dres.r.prd_res[i].n_tr = 0 /\ dres.r.prd_res[i].tr_start_i > 0

\* C17: the selected window is pairwise ratio-bounded: for any two bins a
\* and b between prd1 and prd2 inclusive, rate[a] <= 2 * rate[b].
C17_WindowPairwiseBounded ==
    dres # NoData
        => \A v \in {RatesOf(din)} :
              PairwiseBounded(v, dres.r.prd1 + 1, dres.r.prd2 + 1)

\* the selected window has bins of different rates and leaves out a bin
\* whose rate rose to more than twice the lowest rate of the window while
\* staying within twice the rate of the bin before it
C17_Witness ==
    /\ dres # NoData
    /\ dres.r.prd1 = 0
    /\ dres.r.prd2 = 1
    /\ \E v \in {RatesOf(din)} :
          /\ Len(v) = 3
          /\ VGt(v[2], v[1])
          /\ ~VGtPct(v[3], MAX_DRIFT_PCT, v[2])
          /\ VGtPct(v[3], MAX_DRIFT_PCT, v[1])

\* C18: the selected window covers at least as many trials as any
\* contiguous run of bins (any start, any end) whose rates are pairwise
\* within the drift ratio; the choice is made on trial count, not on the
\* number of bins.
C18_MostTrialsOfAnyBoundedRun ==
    dres # NoData
        => \A tbins \in {BinsOf(din)}, v \in {RatesOf(din)} :
              /\ dres.r.last_tr - dres.r.first_tr
                    = TrialsOfRun(din.tr_starts, tbins,
                                  dres.r.prd1 + 1, dres.r.prd2 + 1)
              /\ \A s \in 1..Len(v), e \in 1..Len(v) :
                    (s <= e /\ PairwiseBounded(v, s, e))
                        => TrialsOfRun(din.tr_starts, tbins, s, e)
                                <= dres.r.last_tr - dres.r.first_tr

\* the selected window is a single bin, although a bounded run of two bins
\* with fewer trials exists
C18_Witness ==
    /\ dres # NoData
    /\ dres.r.prd1 = dres.r.prd2
    /\ \E i \in 1..Len(dres.r.prd_res) :
          /\ dres.r.prd_res[i].n_prd = 2
          /\ dres.r.prd_res[i].n_tr > 0
          /\ dres.r.prd_res[i].n_tr < dres.r.last_tr - dres.r.first_tr

\* C19: the selected window is maximal on both sides: prd2 is the last bin
\* or adding bin prd2+1 breaks the pairwise bound, and prd1 is bin 0 or
\* adding bin prd1-1 breaks the pairwise bound.
C19_WindowMaximal ==
    dres # NoData
        => \A v \in {RatesOf(din)} :
              /\ \/ dres.r.prd2 + 1 = Len(v)
                 \/ ~PairwiseBounded(v, dres.r.prd1 + 1, dres.r.prd2 + 2)
              /\ \/ dres.r.prd1 = 0
                 \/ ~PairwiseBounded(v, dres.r.prd1, dres.r.prd2 + 1)

\* the selected window is the middle bin of three: neither neighbour can
\* be added
C19_Witness ==
    /\ dres # NoData
    /\ Len(dres.r.prd_res) = 3
    /\ dres.r.prd1 = 1
    /\ dres.r.prd2 = 1
    /\ dres.r.last_tr > dres.r.first_tr

\* C20: when several start bins reach the same maximal trial count,
\* test_drift selects the one with the lowest start index; the result is a
\* function of the rates, bin edges and trial starts.
C20_FirstOfEqualMaxima ==
    dres # NoData
        => /\ dres.r.prd1 = dres.r.idx
           /\ \A i \in 1..Len(dres.r.prd_res) :
                /\ dres.r.prd_res[i].n_tr <= dres.r.last_tr - dres.r.first_tr
                /\ dres.r.prd_res[i].n_tr = dres.r.last_tr - dres.r.first_tr
                      => dres.r.prd1 <= i - 1
           /\ dres.r.prd2 = dres.r.prd_res[dres.r.prd1 + 1].prd_end_i
           /\ dres.r.first_tr = dres.r.prd_res[dres.r.prd1 + 1].tr_start_i
           /\ dres.r.last_tr = dres.r.prd_res[dres.r.prd1 + 1].tr_end_i
           /\ \A tbins \in {BinsOf(din)}, v \in {RatesOf(din)} :
                dres.r = test_drift(v, tbins, din.tr_starts, din.spk_times)

\* two runs that end in different bins hold the same, maximal and
\* positive, number of trials
C20_Witness ==
    /\ dres # NoData
    /\ dres.r.last_tr > dres.r.first_tr
    /\ \E i \in 1..Len(dres.r.prd_res) :
          /\ i - 1 > dres.r.prd1
          /\ dres.r.prd_res[i].n_tr = dres.r.last_tr - dres.r.first_tr
          /\ dres.r.prd_res[i].prd_end_i # dres.r.prd2

(***************************************************************************)
(* Properties of a pass on a unit without trials (SpecNoTrials)            *)
(***************************************************************************)
\* C15: test_qm on a non-empty unit that has spikes but zero trials does
\* not raise: it short-circuits like the empty-unit case and leaves the
\* unit's QualityMetrics unset and its excluded flag unchanged.
C15_NoTrialsShortCircuits ==
    \A u \in UnitIds :
        (call[u].called /\ ~units[u].empty /\ Len(units[u].TrialStart) = 0)
            => /\ ret[u] = NoRet
               /\ units[u].QualityMetrics = EmptyQM
               /\ ~units[u].excluded

(***************************************************************************)
(* Properties of interleaved passes on two units (SpecPar)                 *)
(***************************************************************************)
\* C16: running test_qm on two different units with the steps of the two
\* passes interleaved in any order leaves each unit in the same final state
\* as running the two calls one after the other: a pass reads and writes
\* only its own unit.
C16_InterleavedAsSequential ==
    \A u \in ParIds :
        /\ pc[u] = "idle" => (units[u] = din[u] /\ ret[u] = NoRet)
        /\ pc[u] = "done"
              => \E r \in {test_qm(din[u], call[u].include,
                                   call[u].first_tr, call[u].last_tr)} :
                    /\ units[u] = r.u
                    /\ ret[u] = r.ret

\* both passes are through, on two different units with data, each decided
\* by the rejection test, one unit excluded and the other not
C16_Witness ==
    /\ pc = [u \in ParIds |-> "done"]
    /\ ~din[1].empty
    /\ ~din[2].empty
    /\ din[1] # din[2]
    /\ call[1].include = None
    /\ call[2].include = None
    /\ units[1].excluded # units[2].excluded

MasksOf(u) == frame[u].res

\* C22: within one pass update_included_trials (TrialParams.included,
\* NTrialsTotal, NTrialsInc) runs before SNR, mFR and ISIvr are computed
\* from the spikes of spk_inc, and the gate runs last: when test_rejection
\* reads the five values, all were written earlier in the same pass from
\* that pass's masks.
C22_GateReadsThisPass ==
    \A u \in UnitIds :
        /\ (pc[u] \in {"waveform_stats", "time_bin", "trial_exclusion"}
                /\ Len(hist[u]) = 1)
              => units[u].QualityMetrics = EmptyQM
        /\ pc[u] \in {"metrics", "exclusion"}
              => /\ units[u].tr_included = MasksOf(u).tr_inc
                 /\ {"NTrialsTotal", "NTrialsInc"} \subseteq units[u].QualityMetrics.keys
                 /\ units[u].QualityMetrics.NTrialsTotal = Len(units[u].TrialStart)
                 /\ units[u].QualityMetrics.NTrialsInc = NTrue(MasksOf(u).tr_inc)
        /\ (pc[u] = "metrics" /\ Len(hist[u]) = 1)
              => "SNR" \notin units[u].QualityMetrics.keys
        /\ pc[u] = "exclusion"
              => /\ {"SNR", "mFR", "ISIvr"} \subseteq units[u].QualityMetrics.keys
                 /\ units[u].QualityMetrics.SNR
                        = calc_snr(Select(units[u].Waveforms, MasksOf(u).spk_inc))
                 /\ units[u].QualityMetrics.mFR
                        = MeanRate(NTrue(MasksOf(u).spk_inc),
                                   MasksOf(u).t1_inc, MasksOf(u).t2_inc)
                 /\ units[u].QualityMetrics.ISIvr
                        = isi_stats(Select(units[u].time, MasksOf(u).spk_inc)).ISIvr
        /\ (pc[u] = "return" /\ frame[u].rejection_tested)
              => units[u].excluded = ~AllFivePass(units[u].QualityMetrics)

\* the second pass on a unit is about to run the gate, and its masks are
\* not those of the first pass
C22_Witness ==
    \E u \in UnitIds :
        /\ pc[u] = "exclusion"
        /\ Len(hist[u]) = 2
        /\ hist[u][2].include = None
        /\ ret[u] # NoRet
        /\ ret[u].tr_inc # MasksOf(u).tr_inc
        /\ ret[u].spk_inc # MasksOf(u).spk_inc

\* C23: after a pass the per-spike included flag stored on the unit marks
\* exactly the spikes of spk_inc, the mask the same pass used for SNR, mean
\* rate and ISI statistics.
C23_StoredSpikeFlagIsSpkInc ==
    \A u \in UnitIds :
        (call[u].called /\ ~units[u].empty)
            => units[u].spk_included = ret[u].spk_inc

\* C24: the state a pass leaves on a non-empty unit depends only on the
\* unit's spike, waveform and trial inputs and the call's arguments, not on
\* state left by earlier passes.
C24_PassReplacesState ==
    \A u \in UnitIds :
        (pc[u] = "done" /\ ~din[u].empty)
            => \E r \in {test_qm(din[u], call[u].include,
                                 call[u].first_tr, call[u].last_tr)} :
                  /\ units[u] = r.u
                  /\ ret[u] = r.ret

\* an automatic pass is through after a pass with the bounds of the second
\* half of the trials and include=False
C24_Witness ==
    \E u \in UnitIds :
        /\ pc[u] = "done"
        /\ ~din[u].empty
        /\ Len(hist[u]) = 2
        /\ hist[u][1].include = "False"
        /\ hist[u][1].first_tr > 0
        /\ hist[u][2] = [include |-> None, first_tr |-> NoBound,
                         last_tr |-> NoBound]
        /\ ~units[u].excluded

(***************************************************************************)
(* Properties of time_bin_data (SpecBin)                                   *)
(***************************************************************************)
\* bins that hold spike i
BinsOfSpike(r, i) == {k \in 1..Len(r.tbins) : r.spk_idx_binned[k][i]}

RECURSIVE SumTo(_, _)
SumTo(f, n) == IF n = 0 THEN 0 ELSE f[n] + SumTo(f, n - 1)

\* C25: time_bin_data assigns every spike of the session to exactly one
\* bin, so the per-bin spike counts sum to the total number of spikes.
C25_EverySpikeInOneBin ==
    fnOut # NoData
        => /\ \A i \in 1..Len(din.spk_times) :
                Cardinality(BinsOfSpike(fnOut.r, i)) = 1
           /\ SumTo([k \in 1..Len(fnOut.r.tbins) |->
                        NTrue(fnOut.r.spk_idx_binned[k])],
                    Len(fnOut.r.tbins)) = Len(din.spk_times)

\* C26: time_bin_data produces n = max(1, floor((t_stop - t_start) / 120 s))
\* bins of equal width from t_start = min(earliest spike, earliest trial
\* start) to t_stop = max(latest spike, latest trial stop), each bin ending
\* where the next one starts; a session shorter than 120 s gets one bin.
C26_EqualContiguousBins ==
    fnOut # NoData
        => \A len \in {DataStop(din) - DataStart(din)} :
           \A n \in {IF len \div MIN_BIN_LEN >= 1 THEN len \div MIN_BIN_LEN ELSE 1} :
              /\ Len(fnOut.r.tbins) = n
              /\ len < MIN_BIN_LEN => Len(fnOut.r.tbins) = 1
              /\ TimeLe(fnOut.r.tbins[1][1], DataStart(din))
              /\ TimeGe(fnOut.r.tbins[1][1], DataStart(din))
              /\ TimeLe(fnOut.r.tbins[n][2], DataStop(din))
              /\ TimeGe(fnOut.r.tbins[n][2], DataStop(din))
              /\ \A k \in 1..(n - 1) :
                    fnOut.r.tbins[k][2].n * fnOut.r.tbins[k + 1][1].d
                        = fnOut.r.tbins[k + 1][1].n * fnOut.r.tbins[k][2].d
              /\ \A k \in 1..n :
                    n * (fnOut.r.tbins[k][2].n * fnOut.r.tbins[k][1].d
                            - fnOut.r.tbins[k][1].n * fnOut.r.tbins[k][2].d)
                        = len * fnOut.r.tbins[k][1].d * fnOut.r.tbins[k][2].d

\* a session that is not a whole number of 120 s long and starts after 0
\* has been cut into two bins
C26_Witness ==
    /\ fnOut # NoData
    /\ Len(fnOut.r.tbins) = 2
    /\ DataStart(din) > 0
    /\ (DataStop(din) - DataStart(din)) % MIN_BIN_LEN # 0

(***************************************************************************)
(* Properties of the true-spike estimate (SpecISI)                         *)
(***************************************************************************)
\* r, T and N of a train, counted from the spike times
ViolationsOf(t) == Cardinality({i \in 1..(Len(t) - 1) : t[i + 1] - t[i] < ISI_TH})
SpanOf(t) == SeqMax(t) - SeqMin(t)

\* C27: for N >= 2 spikes with r violating ISIs over the span T, the
\* true-spike percent is NaN exactly when
\* det = 1/4 - r*T / (2*(ISI_TH - CENSORED_PRD_LEN)*N^2) is negative, i.e.
\* when 2*r*T > (ISI_TH - CENSORED_PRD_LEN)*N^2; otherwise it is
\* 100*(1/2 + sqrt(det)), which lies in [50, 100] and is 100 when r = 0.
C27_TrueSpikesNaNOrInRange ==
    (isiOut # NoData /\ Len(isiIn) >= 2)
        => \A r \in {ViolationsOf(isiIn)}, T \in {SpanOf(isiIn)},
              NN \in {Len(isiIn) * Len(isiIn)},
              tdif \in {ISI_TH - CENSORED_PRD_LEN} :
              /\ IsNaN(isiOut.r.true_spikes) <=> (2 * r * T > tdif * NN)
              /\ ~IsNaN(isiOut.r.true_spikes)
                    => /\ isiOut.r.true_spikes.k = "hill"
                       /\ isiOut.r.true_spikes.n * 4 * tdif * NN
                            = isiOut.r.true_spikes.d * (tdif * NN - 2 * r * T)
                       /\ GeC(isiOut.r.true_spikes, 50)
                       /\ ~GtC(isiOut.r.true_spikes, 100)
              /\ r = 0 => GeC(isiOut.r.true_spikes, 100)

\* a train with a violating interval has an estimate strictly between 50
\* and 100
C27_Witness ==
    /\ isiOut # NoData
    /\ Len(isiIn) >= 2
    /\ ViolationsOf(isiIn) >= 1
    /\ GtC(isiOut.r.true_spikes, 50)
    /\ LtC(isiOut.r.true_spikes, 100)

SpikesAt(waveforms, v) ==
    {i \in 1..Len(waveforms) : \E j \in 1..Len(waveforms[i]) : waveforms[i][j] = v}

\* the samples of one waveform that equal neither extreme of the matrix
ValidSamples(y, minV, maxV) ==
    {j \in 1..Len(y) : y[j] # minV /\ y[j] # maxV}

\* C29: calc_waveform_stats sets the truncation flag iff more than one spike
\* (row of the matrix) reaches the global minimum voltage or more than one
\* spike reaches the global maximum voltage; one spike holding an extreme in
\* several of its samples does not set it.
C29_TruncatedIffSeveralSpikesAtExtreme ==
    fnOut # NoData =>
        (fnOut.r.is_truncated <=>
            \/ Cardinality(SpikesAt(fnIn.waveforms, fnOut.r.minV)) > 1
            \/ Cardinality(SpikesAt(fnIn.waveforms, fnOut.r.maxV)) > 1)

\* C30: for each spike, nvalid is the number of that spike's samples that are
\* equal neither to the global minimum nor to the global maximum voltage.
C30_NvalidCountsUnclippedSamples ==
    fnOut # NoData =>
        \A i \in 1..Len(fnIn.waveforms) :
            fnOut.r.nvalid[i] =
                Cardinality(ValidSamples(fnIn.waveforms[i], fnOut.r.minV, fnOut.r.maxV))

=============================================================================
